---- MODULE Spec2Model ----
(***************************************************************************)
(* minhypr: a window minimization manager for Hyprland (src/src/main.rs).  *)
(*                                                                         *)
(* The model has three parts:                                              *)
(*   - the window manager, as far as hyprctl shows it: which windows are   *)
(*     open and the workspace each one is in, the text hyprctl prints for  *)
(*     its queries, and the effect of its dispatch commands;               *)
(*   - the cache file /tmp/minhypr-state/windows.json;                     *)
(*   - one action per command line invocation of minhypr, plus what the    *)
(*     user does to the windows outside minhypr.                           *)
(*                                                                         *)
(* Six specifications:                                                     *)
(*   Spec       each invocation is one step, its commands end in any way;  *)
(*   StoreSpec  save_windows_to_cache and read_windows_from_cache on the   *)
(*              text of the file (Spec keeps the file as the vector its    *)
(*              text parses to);                                           *)
(*   RaceSpec   a minimize and a restore, one file access per step;        *)
(*   CrashSpec  one process, one file access per step, killed anywhere;    *)
(*   IconSpec   get_app_icon on class names;                               *)
(*   ParseSpec  parse_window_info on texts.                                *)
(*                                                                         *)
(* Text is a sequence of tokens, so that str::contains is a real substring *)
(* test.  Every external command ends in one of three ways: "ok" (ran,     *)
(* exit status 0), "fail" (ran, exit status not 0, nothing usable on       *)
(* stdout, no effect), "err" (could not be started: Command::output()      *)
(* returns Err, which the `?` of the call site propagates).                *)
(* Writes to the file system are taken to succeed.                         *)
(***************************************************************************)
EXTENDS Integers, Sequences, FiniteSets, TLC

\* ------------------------------------------------------------- bounds
\* Most records the cache file may hold before minimize is no longer offered.
MaxStore == 2
\* Longest text, in tokens, of which every one is given to parse_window_info.
MaxInfo == 4
\* The ids of the regular workspaces.
WsIds == {1, 2}

\* ------------------------------------------------------------- text
\* str::contains: needle occurs in hay as a contiguous run of tokens.
Contains(hay, needle) ==
    \/ needle = <<>>
    \/ \E i \in 0..(Len(hay) - Len(needle)) :
          /\ hay[i + 1] = needle[1]
          /\ SubSeq(hay, i + 1, i + Len(needle)) = needle

\* Concatenation of a sequence of texts.
RECURSIVE Concat(_)
Concat(texts) ==
    IF texts = <<>> THEN <<>> ELSE Head(texts) \o Concat(Tail(texts))

\* str::to_lowercase, on ASCII text: the lower case of each capital letter.
Lower ==
    ("A" :> "a") @@ ("B" :> "b") @@ ("C" :> "c") @@ ("D" :> "d")
      @@ ("E" :> "e") @@ ("F" :> "f") @@ ("G" :> "g") @@ ("H" :> "h")
      @@ ("I" :> "i") @@ ("J" :> "j") @@ ("K" :> "k") @@ ("L" :> "l")
      @@ ("M" :> "m") @@ ("N" :> "n") @@ ("O" :> "o") @@ ("P" :> "p")
      @@ ("Q" :> "q") @@ ("R" :> "r") @@ ("S" :> "s") @@ ("T" :> "t")
      @@ ("U" :> "u") @@ ("V" :> "v") @@ ("W" :> "w") @@ ("X" :> "x")
      @@ ("Y" :> "y") @@ ("Z" :> "z")

LowerOf(c) == IF c \in DOMAIN Lower THEN Lower[c] ELSE c

ToLowercase(text) == [i \in 1..Len(text) |-> LowerOf(text[i])]

\* chars().rev().take(n).collect(): the last n tokens, last first.
RevTake(text, n) ==
    LET k == IF Len(text) < n THEN Len(text) ELSE n
    IN  [i \in 1..k |-> text[Len(text) + 1 - i]]

\* i32 Display and str::parse::<i32>, for the workspace ids 1..9.
Digits == <<"1", "2", "3", "4", "5", "6", "7", "8", "9">>

FormatI32(n) == <<Digits[n]>>

\* The parsed number, or 0 for Err (no workspace has id 0).
ParseI32(text) ==
    IF Len(text) = 1 /\ \E n \in 1..Len(Digits) : Digits[n] = text[1]
    THEN CHOOSE n \in 1..Len(Digits) : Digits[n] = text[1]
    ELSE 0

\* ------------------------------------------------------------- windows
\* The windows of the session, by the address Hyprland gave them.  The
\* address of Win1 is a prefix of the address of Win2.
Win1 == <<"0x", "5", "a">>
Win2 == <<"0x", "5", "a", "b">>
Win3 == <<"0x", "5", "c">>

AddrOrder == <<Win1, Win2, Win3>>
Addresses == {AddrOrder[i] : i \in 1..Len(AddrOrder)}

ClassOf(a) ==
    CASE a = Win1 -> <<"k", "i", "t", "t", "y">>
      [] a = Win2 -> <<"o", "r", "g", ".", "f", "i", "r", "e", "f", "o", "x">>
      [] OTHER -> <<"w", "o", "f", "i">>

TitleOf(a) ==
    CASE a = Win1 -> <<"shell">>
      [] a = Win2 -> <<"Mozilla Firefox">>
      [] OTHER -> <<"run">>

\* Where a window is: no workspace (closed), the hidden workspace, or a
\* regular workspace, by name.
Closed == <<>>
SpecialMinimized == <<"special:minimized">>
WsName(n) == FormatI32(n)
RegularWs == {WsName(n) : n \in WsIds}

\* ------------------------------------------------------------- hyprctl
\* How an external command can end.
Outcomes == {"ok", "fail", "err"}

\* Command::output()? returns Err exactly when the command could not start.
Spawned(o) == o /= "err"

\* A check of the command's result that takes any exit for success.
SuccessOnAnyExit(o) == o /= "err"

\* output.status.success()
Success(o) == o = "ok"

\* String::from_utf8(output.stdout).unwrap_or_default(): what the command
\* printed; a command that did not exit with 0 printed nothing usable.
Stdout(o, text) == IF o = "ok" THEN text ELSE <<>>

\* `hyprctl clients -j`: one entry per open window, with its address and the
\* name of its workspace.
ClientEntry(l, a) == <<"{">> \o a \o <<",">> \o l[a] \o <<"}">>

ClientsJson(l) ==
    Concat([i \in 1..Len(AddrOrder) |->
              IF l[AddrOrder[i]] = Closed THEN <<>>
              ELSE ClientEntry(l, AddrOrder[i])])

\* `hyprctl workspaces -j`: one entry per workspace that holds a window, with
\* the workspace's name and the windows assigned to it.
WsOrder == [i \in 1..(Cardinality(WsIds) + 1) |->
              IF i \in WsIds THEN WsName(i) ELSE SpecialMinimized]

WorkspaceEntry(l, name) ==
    <<"{">> \o name
            \o Concat([i \in 1..Len(AddrOrder) |->
                         IF l[AddrOrder[i]] = name
                         THEN <<",">> \o AddrOrder[i] ELSE <<>>])
            \o <<"}">>

WorkspacesJson(l) ==
    Concat([i \in 1..Len(WsOrder) |->
              IF \E a \in Addresses : l[a] = WsOrder[i]
              THEN WorkspaceEntry(l, WsOrder[i]) ELSE <<>>])

\* `hyprctl dispatch movetoworkspace[silent] <target>,address:<a>`: an open
\* window is moved when the command succeeds.
Dispatch(l, o, target, a) ==
    IF Success(o) /\ l[a] /= Closed THEN [l EXCEPT ![a] = target] ELSE l

\* One external command as the process ran it: the command, the function
\* that ran it, the window and workspace it names (<<>> and 0 when it names
\* none) and how it ended.  "save" is fs::write of the cache file.
Event(cmd, by, a, ws, o) ==
    [cmd |-> cmd, by |-> by, addr |-> a, ws |-> ws, out |-> o]

\* ------------------------------------------------------------- records
ICONS == <<
    << <<"f", "i", "r", "e", "f", "o", "x">>, "icon_firefox" >>,
    << <<"A", "l", "a", "c", "r", "i", "t", "t", "y">>, "icon_alacritty" >>,
    << <<"k", "i", "t", "t", "y">>, "icon_kitty" >>,
    << <<"d", "i", "s", "c", "o", "r", "d">>, "icon_discord" >>,
    << <<"S", "t", "e", "a", "m">>, "icon_steam" >>,
    << <<"c", "h", "r", "o", "m", "i", "u", "m">>, "icon_chromium" >>,
    << <<"c", "h", "r", "o", "m", "e">>, "icon_chrome" >>,
    << <<"c", "o", "d", "e">>, "icon_code" >>,
    << <<"s", "p", "o", "t", "i", "f", "y">>, "icon_spotify" >>,
    << <<"d", "e", "f", "a", "u", "l", "t">>, "icon_default" >>
>>

\* get_app_icon comparing the class name and the keys as they are written.
get_app_icon_case_sensitive(class_name) ==
    LET hit(i) == Contains(class_name, ICONS[i][1])
    IN  IF \E i \in 1..Len(ICONS) : hit(i)
        THEN ICONS[CHOOSE i \in 1..Len(ICONS) :
                     hit(i) /\ \A j \in 1..(i - 1) : ~hit(j)][2]
        ELSE ICONS[Len(ICONS)][2]

\* get_app_icon(class_name): the glyph of the first row of ICONS whose key
\* the class name contains, both in lower case; the last row's otherwise.
get_app_icon(class_name) ==
    LET hit(i) == Contains(ToLowercase(class_name), ToLowercase(ICONS[i][1]))
    IN  IF \E i \in 1..Len(ICONS) : hit(i)
        THEN ICONS[CHOOSE i \in 1..Len(ICONS) :
                     hit(i) /\ \A j \in 1..(i - 1) : ~hit(j)][2]
        ELSE ICONS[Len(ICONS)][2]

\* preview_path: Option<String>; None is the empty text.
None == <<>>
ThumbPath(a) == <<"/tmp/minhypr-previews/">> \o a \o <<".thumb.png">>

MinimizedWindow(a, class, title, preview, ws) ==
    [address |-> a,
     display_title |-> <<get_app_icon(class)>> \o class \o <<" - ">> \o title
                          \o <<" [">> \o RevTake(a, 4) \o <<"]">>,
     class |-> class,
     original_title |-> title,
     preview_path |-> preview,
     icon |-> get_app_icon(class),
     workspace |-> ws]

\* ------------------------------------------------------------- JSON
\* The fields of MinimizedWindow, in the order of the struct, which is the
\* order serde writes them in.
Fields == <<"address", "display_title", "class", "original_title",
            "preview_path", "icon", "workspace">>

\* A JSON string without the escapes of `"` and `\`.
NoEscape(content) == content

\* The content of a JSON string as serde_json writes it: `"` and `\` are
\* escaped with `\`.
Escape(content) ==
    Concat([i \in 1..Len(content) |->
              IF content[i] \in {"\"", "\\"} THEN <<"\\", content[i]>>
              ELSE <<content[i]>>])

Str(content) == <<"\"">> \o Escape(content) \o <<"\"">>

\* The value of field k of a record as JSON: preview_path is null for None,
\* workspace is a number, the others are strings (icon is one glyph).
FieldJson(window, k) ==
    CASE Fields[k] = "address" -> Str(window.address)
      [] Fields[k] = "display_title" -> Str(window.display_title)
      [] Fields[k] = "class" -> Str(window.class)
      [] Fields[k] = "original_title" -> Str(window.original_title)
      [] Fields[k] = "preview_path" ->
           IF window.preview_path = <<>> THEN <<"null">>
           ELSE Str(window.preview_path)
      [] Fields[k] = "icon" -> Str(<<window.icon>>)
      [] OTHER -> <<Digits[window.workspace]>>

RecordJson(window) ==
    <<"{">>
      \o Concat([k \in 1..Len(Fields) |->
                   (IF k = 1 THEN <<>> ELSE <<",">>)
                     \o Str(<<Fields[k]>>) \o <<":">> \o FieldJson(window, k)])
      \o <<"}">>

\* serde_json::to_string(windows)
to_string(windows) ==
    <<"[">>
      \o Concat([i \in 1..Len(windows) |->
                   (IF i = 1 THEN <<>> ELSE <<",">>) \o RecordJson(windows[i])])
      \o <<"]">>

\* What a step of the parser gives: whether it read what it expected, the
\* value it read, and the position after it.
Parsed(ok, val, next) == [ok |-> ok, val |-> val, next |-> next]
Failed == Parsed(FALSE, <<>>, 0)

Token(text, i, tok) == i <= Len(text) /\ text[i] = tok

\* The content of a string whose opening quote is before position i: up to
\* the closing quote, `\` taking the next token as it is.
RECURSIVE ReadString(_, _, _)
ReadString(text, i, acc) ==
    IF i > Len(text) THEN Failed
    ELSE IF text[i] = "\"" THEN Parsed(TRUE, acc, i + 1)
    ELSE IF text[i] = "\\"
         THEN IF i + 1 > Len(text) THEN Failed
              ELSE ReadString(text, i + 2, Append(acc, text[i + 1]))
    ELSE ReadString(text, i + 1, Append(acc, text[i]))

ParseString(text, i) ==
    IF Token(text, i, "\"") THEN ReadString(text, i + 1, <<>>) ELSE Failed

\* The one element of a one-element set: it names a value that is computed
\* once, as a `let` of the code is.
The(S) == CHOOSE x \in S : TRUE

\* The value of field k at position i: Option<String>, i32 or String.
ParseValue(text, i, k) ==
    CASE Fields[k] = "preview_path" ->
           IF Token(text, i, "null") THEN Parsed(TRUE, <<>>, i + 1)
           ELSE ParseString(text, i)
      [] Fields[k] = "workspace" ->
           IF i <= Len(text) /\ ParseI32(<<text[i]>>) /= 0
           THEN Parsed(TRUE, ParseI32(<<text[i]>>), i + 1)
           ELSE Failed
      [] Fields[k] = "icon" ->
           The({IF r.ok /\ Len(r.val) = 1
                THEN Parsed(TRUE, r.val[1], r.next)
                ELSE r : r \in {ParseString(text, i)}})
      [] OTHER -> ParseString(text, i)

\* The fields k.. of a record from position i on, in the order of Fields:
\* `"key":value`, separated by `,`; acc holds the values read so far.
RECURSIVE ParseFields(_, _, _, _)
ParseFields(text, i, k, acc) ==
    IF k > Len(Fields) THEN Parsed(TRUE, acc, i)
    ELSE IF k > 1 /\ ~Token(text, i, ",") THEN Failed
    ELSE The({
           IF ~key.ok \/ key.val /= <<Fields[k]>> THEN Failed
           ELSE IF ~Token(text, key.next, ":") THEN Failed
           ELSE The({
                  IF ~val.ok THEN Failed
                  ELSE ParseFields(text, val.next, k + 1,
                                   Append(acc, val.val)) :
                  val \in {ParseValue(text, key.next + 1, k)}}) :
           key \in {ParseString(text, IF k = 1 THEN i ELSE i + 1)}})

ParseRecord(text, i) ==
    IF ~Token(text, i, "{") THEN Failed
    ELSE The({
           IF ~r.ok \/ ~Token(text, r.next, "}") THEN Failed
           ELSE Parsed(TRUE,
                       [address |-> r.val[1], display_title |-> r.val[2],
                        class |-> r.val[3], original_title |-> r.val[4],
                        preview_path |-> r.val[5], icon |-> r.val[6],
                        workspace |-> r.val[7]],
                       r.next + 1) :
           r \in {ParseFields(text, i + 1, 1, <<>>)}})

\* The records of an array from position i on, the first of them at i.
RECURSIVE ParseRecords(_, _, _)
ParseRecords(text, i, acc) ==
    The({IF ~r.ok THEN Failed
         ELSE IF Token(text, r.next, ",")
              THEN ParseRecords(text, r.next + 1, Append(acc, r.val))
         ELSE IF Token(text, r.next, "]")
              THEN Parsed(TRUE, Append(acc, r.val), r.next + 1)
         ELSE Failed :
         r \in {ParseRecord(text, i)}})

\* serde_json::from_str::<Vec<MinimizedWindow>>(text), for a text whose
\* records have their fields in the order of Fields: Ok with the vector, or
\* Err.  Nothing may follow the array.
from_str(text) ==
    The({IF Token(t, 1, "[") /\ r.ok /\ r.next = Len(t) + 1
         THEN [ok |-> TRUE, windows |-> r.val]
         ELSE [ok |-> FALSE, windows |-> <<>>] :
         t \in {text},
         r \in {IF Token(text, 2, "]") THEN Parsed(TRUE, <<>>, 3)
                ELSE ParseRecords(text, 2, <<>>)}})

\* ------------------------------------------------------------- window info
\* HashMap<String, String>: a function from keys to values.
EmptyMap == [k \in {} |-> <<>>]

\* HashMap::insert: a later value of a key replaces the earlier one.
insert(map, key, value) ==
    [k \in DOMAIN map \cup {key} |-> IF k = key THEN value ELSE map[k]]

Whitespace == {" "}
Braces == {"{", "}"}
Quotes == {"\""}

\* The position of the first token from i on that is not whitespace.
RECURSIVE SkipWhitespace(_, _)
SkipWhitespace(info, i) ==
    IF i <= Len(info) /\ info[i] \in Whitespace
    THEN SkipWhitespace(info, i + 1)
    ELSE i

\* The pairs of an object from position i on, the first key at i: each is
\* `"key":"value"`, `,` is between two pairs and `}` after the last, with
\* whitespace anywhere between them.
RECURSIVE ParsePairs(_, _, _)
ParsePairs(info, i, acc) ==
    The({
      IF ~key.ok THEN Failed
      ELSE IF ~Token(info, SkipWhitespace(info, key.next), ":") THEN Failed
      ELSE The({
             IF ~val.ok THEN Failed
             ELSE The({
                    IF Token(info, j, ",")
                    THEN ParsePairs(info, SkipWhitespace(info, j + 1),
                                    insert(acc, key.val, val.val))
                    ELSE IF Token(info, j, "}")
                    THEN Parsed(TRUE, insert(acc, key.val, val.val), j + 1)
                    ELSE Failed :
                    j \in {SkipWhitespace(info, val.next)}}) :
             val \in {ParseString(
                        info,
                        SkipWhitespace(
                          info, SkipWhitespace(info, key.next) + 1))}}) :
      key \in {ParseString(info, i)}})

\* serde_json::from_str::<HashMap<String, String>>(info): Ok with the map
\* of an object whose values are all strings, or Err.  Nothing but
\* whitespace may follow the object.
from_str_map(info) ==
    The({IF Token(t, i, "{") /\ r.ok /\ SkipWhitespace(t, r.next) = Len(t) + 1
         THEN [ok |-> TRUE, map |-> r.val]
         ELSE [ok |-> FALSE, map |-> EmptyMap] :
         t \in {info},
         i \in {SkipWhitespace(info, 1)},
         r \in {IF Token(info, SkipWhitespace(info, SkipWhitespace(info, 1) + 1),
                         "}")
                THEN Parsed(TRUE, EmptyMap,
                            SkipWhitespace(info, SkipWhitespace(info, 1) + 1)
                              + 1)
                ELSE ParsePairs(info,
                                SkipWhitespace(info,
                                               SkipWhitespace(info, 1) + 1),
                                EmptyMap)}})

\* str::trim_start_matches and str::trim_end_matches: every leading and
\* every trailing token of the set is removed.
RECURSIVE trim_start_matches(_, _)
trim_start_matches(s, set) ==
    IF s /= <<>> /\ Head(s) \in set THEN trim_start_matches(Tail(s), set)
    ELSE s

RECURSIVE trim_end_matches(_, _)
trim_end_matches(s, set) ==
    IF s /= <<>> /\ s[Len(s)] \in set
    THEN trim_end_matches(SubSeq(s, 1, Len(s) - 1), set)
    ELSE s

\* A trim that removes at most one token at each end.
trim_matches_once(s, set) ==
    LET t == IF s /= <<>> /\ Head(s) \in set THEN Tail(s) ELSE s
    IN  IF t /= <<>> /\ t[Len(t)] \in set THEN SubSeq(t, 1, Len(t) - 1)
        ELSE t

\* str::trim_matches
trim_matches(s, set) == trim_end_matches(trim_start_matches(s, set), set)

\* str::trim
trim(s) == trim_matches(s, Whitespace)

\* The positions of sep in s.
Finds(s, sep) == {i \in 1..Len(s) : s[i] = sep}

\* The first position of a set of positions that is not empty.
First(positions) == CHOOSE i \in positions : \A j \in positions : i <= j

\* str::split(sep): the runs between the separators, in order; one run,
\* the whole text, when there is no separator.
RECURSIVE split(_, _)
split(s, sep) ==
    IF Finds(s, sep) = {} THEN <<s>>
    ELSE <<SubSeq(s, 1, First(Finds(s, sep)) - 1)>>
           \o split(SubSeq(s, First(Finds(s, sep)) + 1, Len(s)), sep)

\* str::split_once(sep): None, or what is before and after the first sep.
split_once(s, sep) ==
    IF Finds(s, sep) = {} THEN [some |-> FALSE, key |-> <<>>, value |-> <<>>]
    ELSE [some |-> TRUE,
          key |-> SubSeq(s, 1, First(Finds(s, sep)) - 1),
          value |-> SubSeq(s, First(Finds(s, sep)) + 1, Len(s))]

\* The loop of the fallback over the pairs, result holding the entries
\* inserted so far.
RECURSIVE InsertPairs(_, _)
InsertPairs(result, pairs) ==
    IF pairs = <<>> THEN result
    ELSE LET kv == split_once(Head(pairs), ":")
             clean_key == trim_matches(trim(kv.key), Quotes)
             clean_value == trim_matches(trim(kv.value), Quotes)
         IN  InsertPairs(IF kv.some THEN insert(result, clean_key, clean_value)
                         ELSE result,
                         Tail(pairs))

\* parse_window_info(info): the Result (err) and the map of an Ok.
parse_window_info(info) ==
    LET strict == from_str_map(info)
        content == trim_matches(info, Braces)
    IN  IF strict.ok THEN [err |-> FALSE, map |-> strict.map]
        ELSE [err |-> FALSE, map |-> InsertPairs(EmptyMap, split(content, ","))]

\* ------------------------------------------------------------- cache file
\* The cache file: whether it exists, whether its content parses as a list
\* of records, and the records.
CacheFile(windows) == [exists |-> TRUE, valid |-> TRUE, windows |-> windows]
NoFile == [exists |-> FALSE, valid |-> TRUE, windows |-> <<>>]

\* serde_json::to_string, then fs::write.
save_windows_to_cache(windows) == CacheFile(windows)

\* main, before it dispatches: the directories exist and so does the file.
EnsureCache(f) == IF f.exists THEN f ELSE save_windows_to_cache(<<>>)

\* What a call returns: err is the Result (TRUE for Err), windows the vector
\* of an Ok, file and loc the cache file and the window manager after the
\* call, log the external commands the call ran, notfound whether it printed
\* "Window not found in cache".
Ret(err, windows, f, l, log, notfound) ==
    [err |-> err, windows |-> windows, file |-> f, loc |-> l, log |-> log,
     notfound |-> notfound]

signal_waybar(by) == Event("pkill", by, <<>>, 0, "ok")

\* ------------------------------------------------------------- reconciliation
\* A test on one record that looks at the client listing only.
IsOpenWindow(window, windows_json, workspaces_json) ==
    Contains(windows_json, window.address)

\* The test of validate_cached_windows on one record: three substring tests
\* on the text the two queries printed.
IsValidWindow(window, windows_json, workspaces_json) ==
    /\ Contains(windows_json, window.address)
    /\ Contains(workspaces_json, SpecialMinimized)
    /\ Contains(workspaces_json, window.address)

\* validate_cached_windows with signal_waybar() outside `if need_update`.
validate_cached_windows_signals_always(windows, f, l, q1, q2) ==
    LET by == "validate_cached_windows"
        e1 == Event("clients", by, <<>>, 0, q1)
        e2 == Event("workspaces", by, <<>>, 0, q2)
        windows_json == Stdout(q1, ClientsJson(l))
        workspaces_json == Stdout(q2, WorkspacesJson(l))
        valid_windows ==
            SelectSeq(windows,
                      LAMBDA w : IsValidWindow(w, windows_json, workspaces_json))
        need_update == Len(valid_windows) < Len(windows)
    IN  IF windows = <<>> THEN Ret(FALSE, <<>>, f, l, <<>>, FALSE)
        ELSE IF ~Spawned(q1) THEN Ret(TRUE, <<>>, f, l, <<e1>>, FALSE)
        ELSE IF ~Spawned(q2) THEN Ret(TRUE, <<>>, f, l, <<e1, e2>>, FALSE)
        ELSE IF need_update
             THEN Ret(FALSE, valid_windows, save_windows_to_cache(valid_windows),
                      l,
                      <<e1, e2, Event("save", by, <<>>, 0, "ok"),
                        signal_waybar(by)>>,
                      FALSE)
             ELSE Ret(FALSE, valid_windows, f, l,
                      <<e1, e2, signal_waybar(by)>>, FALSE)

\* validate_cached_windows(windows), with the cache file f, the window
\* manager l, and the ends q1 and q2 of `hyprctl clients -j` and
\* `hyprctl workspaces -j`.
validate_cached_windows(windows, f, l, q1, q2) ==
    LET by == "validate_cached_windows"
        e1 == Event("clients", by, <<>>, 0, q1)
        e2 == Event("workspaces", by, <<>>, 0, q2)
        windows_json == Stdout(q1, ClientsJson(l))
        workspaces_json == Stdout(q2, WorkspacesJson(l))
        valid_windows ==
            SelectSeq(windows,
                      LAMBDA w : IsValidWindow(w, windows_json, workspaces_json))
        need_update == Len(valid_windows) < Len(windows)
    IN  IF windows = <<>> THEN Ret(FALSE, <<>>, f, l, <<>>, FALSE)
        ELSE IF ~Spawned(q1) THEN Ret(TRUE, <<>>, f, l, <<e1>>, FALSE)
        ELSE IF ~Spawned(q2) THEN Ret(TRUE, <<>>, f, l, <<e1, e2>>, FALSE)
        ELSE IF need_update
             THEN Ret(FALSE, valid_windows, save_windows_to_cache(valid_windows),
                      l,
                      <<e1, e2, Event("save", by, <<>>, 0, "ok"),
                        signal_waybar(by)>>,
                      FALSE)
             ELSE Ret(FALSE, valid_windows, f, l, <<e1, e2>>, FALSE)

\* read_windows_from_cache()
read_windows_from_cache(f, l, q1, q2) ==
    IF ~f.exists THEN Ret(FALSE, <<>>, f, l, <<>>, FALSE)
    ELSE IF ~f.valid THEN Ret(FALSE, <<>>, f, l, <<>>, FALSE)
    ELSE validate_cached_windows(f.windows, f, l, q1, q2)

\* ------------------------------------------------------------- restore
\* The commands of one record, with the move to the default workspace 1.
RestoreCommandsToDefault(window, mv, fc) ==
    LET by == "restore_specific_window"
    IN  << Event("movetoworkspace", by, window.address, 1, mv),
           Event("focuswindow", by, window.address, 0, fc) >>

\* The commands of one record that restore_specific_window found: the move
\* to the record's workspace, then the focus.
RestoreCommands(window, mv, fc) ==
    LET by == "restore_specific_window"
    IN  << Event("movetoworkspace", by, window.address, window.workspace, mv),
           Event("focuswindow", by, window.address, 0, fc) >>

\* The window manager after the moves of the found records, in order.
RECURSIVE MoveAll(_, _, _)
MoveAll(l, found, mv) ==
    IF found = <<>> THEN l
    ELSE MoveAll(Dispatch(l, mv, WsName(Head(found).workspace),
                          Head(found).address),
                 Tail(found), mv)

\* restore_specific_window without the return of `if !found`.
restore_specific_window_saves_always(window_id, f, l, q1, q2, mv, fc) ==
    LET by == "restore_specific_window"
        rd == read_windows_from_cache(f, l, q1, q2)
        windows == rd.windows
        found == SelectSeq(windows, LAMBDA w : w.address = window_id)
        updated_windows == SelectSeq(windows, LAMBDA w : w.address /= window_id)
    IN  IF rd.err THEN rd
        ELSE IF found /= <<>> /\ ~Spawned(mv)
             THEN Ret(TRUE, <<>>, rd.file, rd.loc,
                      rd.log \o <<RestoreCommands(Head(found), mv, fc)[1]>>,
                      FALSE)
        ELSE IF found /= <<>> /\ ~Spawned(fc)
             THEN Ret(TRUE, <<>>, rd.file, MoveAll(rd.loc, <<Head(found)>>, mv),
                      rd.log \o RestoreCommands(Head(found), mv, fc), FALSE)
        ELSE Ret(FALSE, <<>>, save_windows_to_cache(updated_windows),
                 MoveAll(rd.loc, found, mv),
                 rd.log
                   \o Concat([i \in 1..Len(found) |->
                                RestoreCommands(found[i], mv, fc)])
                   \o <<Event("save", by, <<>>, 0, "ok")>>,
                 found = <<>>)

\* restore_specific_window(window_id), with the ends of the two queries of
\* its load and the ends mv and fc of the move and focus commands.
restore_specific_window(window_id, f, l, q1, q2, mv, fc) ==
    LET by == "restore_specific_window"
        rd == read_windows_from_cache(f, l, q1, q2)
        windows == rd.windows
        found == SelectSeq(windows, LAMBDA w : w.address = window_id)
        updated_windows == SelectSeq(windows, LAMBDA w : w.address /= window_id)
        first == <<Head(found)>>
    IN  IF rd.err THEN rd
        ELSE IF found = <<>>
             THEN Ret(FALSE, <<>>, rd.file, rd.loc, rd.log, TRUE)
        ELSE IF ~Spawned(mv)
             THEN Ret(TRUE, <<>>, rd.file, rd.loc,
                      rd.log \o <<RestoreCommands(Head(found), mv, fc)[1]>>,
                      FALSE)
        ELSE IF ~Spawned(fc)
             THEN Ret(TRUE, <<>>, rd.file, MoveAll(rd.loc, first, mv),
                      rd.log \o RestoreCommands(Head(found), mv, fc), FALSE)
        ELSE Ret(FALSE, <<>>, save_windows_to_cache(updated_windows),
                 MoveAll(rd.loc, found, mv),
                 rd.log
                   \o Concat([i \in 1..Len(found) |->
                                RestoreCommands(found[i], mv, fc)])
                   \o <<Event("save", by, <<>>, 0, "ok")>>,
                 FALSE)

\* ------------------------------------------------------------- minimize
\* The keys minimize_window reads from the parsed `hyprctl activewindow -j`.
WindowKeys == {"address", "class", "title", "at", "size"}

\* parse_window_info of what `hyprctl activewindow -j` printed for the
\* active window act, as a mapping from key to text; the keys in lack are
\* not in it.  No window has the focus when act is closed: the mapping is
\* empty.
WindowData(l, act, lack) ==
    LET all == [k \in WindowKeys |->
                  CASE k = "address" -> act
                    [] k = "class" -> ClassOf(act)
                    [] k = "title" -> TitleOf(act)
                    [] k = "at" -> <<"0", ",", "0">>
                    [] OTHER -> <<"8", ",", "6">>]
    IN  IF l[act] = Closed THEN [k \in {} |-> <<>>]
        ELSE [k \in WindowKeys \ lack |-> all[k]]

\* The id `hyprctl activeworkspace -j` can print while act has the focus: the
\* workspace of act, or any regular workspace while act is shown from the
\* hidden workspace.
ActiveWorkspaces(l, act) ==
    IF l[act] \in RegularWs THEN {ParseI32(l[act])} ELSE WsIds

\* The class of another menu launcher.
Rofi == <<"r", "o", "f", "i">>

\* The denylisted class, "wofi".
Wofi == <<"w", "o", "f", "i">>

\* capture_window_preview(window_id, geometry), with the ends of grim and of
\* the two runs of convert.  fs::remove_file fails when grim wrote no
\* screenshot.  Returns the Result and the commands run.
capture_window_preview(window_id, grim, thumb, icon) ==
    LET by == "capture_window_preview"
        e1 == Event("grim", by, window_id, 0, grim)
        e2 == Event("convert", by, window_id, 0, thumb)
        e3 == Event("convert", by, window_id, 0, icon)
    IN  IF ~Spawned(grim) THEN [err |-> TRUE, path |-> None, log |-> <<e1>>]
        ELSE IF ~Spawned(thumb)
             THEN [err |-> TRUE, path |-> None, log |-> <<e1, e2>>]
        ELSE IF ~Spawned(icon)
             THEN [err |-> TRUE, path |-> None, log |-> <<e1, e2, e3>>]
        ELSE IF ~Success(grim)
             THEN [err |-> TRUE, path |-> None, log |-> <<e1, e2, e3>>]
        ELSE [err |-> FALSE, path |-> ThumbPath(window_id),
              log |-> <<e1, e2, e3>>]

\* A push that puts the record first.
PushFront(windows, window) == <<window>> \o windows

\* Vec::push
Push(windows, window) == Append(windows, window)

\* minimize_window(), run on the cache file f and the window manager l.
\* in.aw, in.ws, in.mv: the ends of `hyprctl activewindow -j`,
\* `hyprctl activeworkspace -j` and the move to the hidden workspace;
\* in.act, in.lack: the active window and the keys its description lacks;
\* in.cur: the active workspace; in.grim, in.thumb, in.icon: the ends of the
\* preview commands; in.q1, in.q2: the ends of the queries of the load.
minimize_window(f, l, in) ==
    LET by == "minimize_window"
        e1 == Event("activewindow", by, <<>>, 0, in.aw)
        e2 == Event("activeworkspace", by, <<>>, 0, in.ws)
        window_data == WindowData(l, in.act, in.lack)
        has(k) == k \in DOMAIN window_data
        id == IF Success(in.ws) THEN ParseI32(FormatI32(in.cur)) ELSE 0
        current_workspace == IF id = 0 THEN 1 ELSE id
        window_addr == window_data["address"]
        class_name == window_data["class"]
        title == window_data["title"]
        cap == IF has("at") /\ has("size")
               THEN capture_window_preview(window_addr, in.grim, in.thumb,
                                           in.icon)
               ELSE [err |-> TRUE, path |-> None, log |-> <<>>]
        window == MinimizedWindow(window_addr, class_name, title, cap.path,
                                  current_workspace)
        e3 == Event("movetoworkspacesilent", by, window_addr, 0, in.mv)
        moved == Dispatch(l, in.mv, SpecialMinimized, window_addr)
        rd == read_windows_from_cache(f, moved, in.q1, in.q2)
        windows == Push(rd.windows, window)
    IN  IF ~Spawned(in.aw) THEN Ret(TRUE, <<>>, f, l, <<e1>>, FALSE)
        ELSE IF ~Success(in.aw) THEN Ret(FALSE, <<>>, f, l, <<e1>>, FALSE)
        ELSE IF has("class") /\ window_data["class"] = Wofi
             THEN Ret(FALSE, <<>>, f, l, <<e1>>, FALSE)
        ELSE IF ~Spawned(in.ws) THEN Ret(TRUE, <<>>, f, l, <<e1, e2>>, FALSE)
        ELSE IF ~has("address") \/ ~has("class") \/ ~has("title")
             THEN Ret(FALSE, <<>>, f, l, <<e1, e2>>, FALSE)
        ELSE IF ~Spawned(in.mv)
             THEN Ret(TRUE, <<>>, f, l, <<e1, e2>> \o cap.log \o <<e3>>, FALSE)
        ELSE IF ~Success(in.mv)
             THEN Ret(FALSE, <<>>, f, l, <<e1, e2>> \o cap.log \o <<e3>>, FALSE)
        ELSE IF rd.err
             THEN Ret(TRUE, <<>>, rd.file, moved,
                      <<e1, e2>> \o cap.log \o <<e3>> \o rd.log, FALSE)
        ELSE Ret(FALSE, <<>>, save_windows_to_cache(windows), moved,
                 <<e1, e2>> \o cap.log \o <<e3>> \o rd.log
                   \o <<Event("save", by, <<>>, 0, "ok"), signal_waybar(by)>>,
                 FALSE)

\* ------------------------------------------------------------- other commands
\* show_status counting the records of the file as it was before the load.
show_status_counts_file(f, l, q1, q2) ==
    [read_windows_from_cache(f, l, q1, q2) EXCEPT !.windows = f.windows]

\* show_status(): the load, then the count it prints.
show_status(f, l, q1, q2) == read_windows_from_cache(f, l, q1, q2)

\* show_rofi_menu() (`show-rofi`, the menu feed), with the ends of the
\* queries of the load, of `hyprctl activeworkspace -j` and of its own
\* `hyprctl clients -j`.
show_rofi_menu(f, l, q1, q2, ws, cl) ==
    LET by == "show_rofi_menu"
        rd == read_windows_from_cache(f, l, q1, q2)
        windows == rd.windows
        e1 == Event("activeworkspace", by, <<>>, 0, ws)
        e2 == Event("clients", by, <<>>, 0, cl)
        windows_json == Stdout(cl, ClientsJson(rd.loc))
        updated_windows ==
            SelectSeq(windows, LAMBDA w : Contains(windows_json, w.address))
        at_least_one_changed == Len(updated_windows) < Len(windows)
    IN  IF rd.err THEN rd
        ELSE IF windows = <<>> THEN rd
        ELSE IF ~Spawned(ws)
             THEN Ret(TRUE, <<>>, rd.file, rd.loc, rd.log \o <<e1>>, FALSE)
        ELSE IF ~Spawned(cl)
             THEN Ret(TRUE, <<>>, rd.file, rd.loc, rd.log \o <<e1, e2>>, FALSE)
        ELSE IF at_least_one_changed
             THEN Ret(FALSE, updated_windows,
                      save_windows_to_cache(updated_windows), rd.loc,
                      rd.log \o <<e1, e2, Event("save", by, <<>>, 0, "ok"),
                                  signal_waybar(by)>>,
                      FALSE)
        ELSE Ret(FALSE, updated_windows, rd.file, rd.loc, rd.log \o <<e1, e2>>,
                 FALSE)

\* The loop of restore_all_windows over the vector it loaded: runs[i] holds
\* the ends of the commands of the i-th call of restore_specific_window.  An
\* Err ends the loop.
RECURSIVE RestoreEach(_, _, _, _, _)
RestoreEach(windows, f, l, log, runs) ==
    IF windows = <<>> THEN Ret(FALSE, <<>>, f, l, log, FALSE)
    ELSE LET r == restore_specific_window(Head(windows).address, f, l,
                                          Head(runs).q1, Head(runs).q2,
                                          Head(runs).mv, Head(runs).fc)
         IN  IF r.err THEN Ret(TRUE, <<>>, r.file, r.loc, log \o r.log, FALSE)
             ELSE RestoreEach(Tail(windows), r.file, r.loc, log \o r.log,
                              Tail(runs))

\* restore_all_windows()
restore_all_windows(f, l, q1, q2, runs) ==
    LET rd == read_windows_from_cache(f, l, q1, q2)
    IN  IF rd.err THEN rd
        ELSE RestoreEach(rd.windows, rd.file, rd.loc, rd.log, runs)

\* The "restore-last" arm of main: the load, then restore_specific_window of
\* windows.first().
restore_last(f, l, q1, q2, run) ==
    LET rd == read_windows_from_cache(f, l, q1, q2)
    IN  IF rd.err THEN rd
        ELSE IF rd.windows = <<>> THEN rd
        ELSE LET r == restore_specific_window(rd.windows[1].address, rd.file,
                                              rd.loc, run.q1, run.q2, run.mv,
                                              run.fc)
             IN  Ret(r.err, <<>>, r.file, r.loc, rd.log \o r.log, r.notfound)

\* ------------------------------------------------------------- inputs
\* The ends of the two queries of a load: the second is not run (and is
\* written "ok") when the first could not start; none is run on an empty
\* vector.
QueryRuns ==
    {[q1 |-> a, q2 |-> b] : a \in {"ok", "fail"}, b \in Outcomes}
      \cup {[q1 |-> "err", q2 |-> "ok"]}

Loads(f) ==
    IF f.windows = <<>> THEN {[q1 |-> "ok", q2 |-> "ok"]} ELSE QueryRuns

\* The ends of the commands of one restore_specific_window: the load, the
\* move, the focus.  A command that is not reached is written "ok".
RestoreRuns ==
    {[q1 |-> q.q1, q2 |-> q.q2, mv |-> m, fc |-> c] :
        q \in {x \in QueryRuns : Spawned(x.q1) /\ Spawned(x.q2)},
        m \in {"ok", "fail"}, c \in Outcomes}
      \cup {[q1 |-> q.q1, q2 |-> q.q2, mv |-> "err", fc |-> "ok"] :
              q \in {x \in QueryRuns : Spawned(x.q1) /\ Spawned(x.q2)}}
      \cup {[q1 |-> q.q1, q2 |-> q.q2, mv |-> "ok", fc |-> "ok"] :
              q \in {x \in QueryRuns : ~Spawned(x.q1) \/ ~Spawned(x.q2)}}

\* The runs in which the queries end "ok" and the move ends in any way: what
\* each iteration of restore-all and the restore of restore-last draw from.
SingleFaultRuns ==
    {r \in RestoreRuns : r.q1 = "ok" /\ r.q2 = "ok" /\ r.fc = "ok"}

\* The run in which every command ends "ok": what is written for the
\* commands a call does not reach.
OkRun == [q1 |-> "ok", q2 |-> "ok", mv |-> "ok", fc |-> "ok"]

\* The runs of the iterations of restore-all after a load that ended as q:
\* an iteration the loop does not reach (the loaded vector is shorter, or
\* an earlier move could not start) is written OkRun.
RestoreAllRuns(f, l, q) ==
    LET rd == read_windows_from_cache(f, l, q.q1, q.q2)
        n == IF rd.err THEN 0 ELSE Len(rd.windows)
    IN  {runs \in [1..Len(f.windows) -> SingleFaultRuns] :
            \A i \in DOMAIN runs :
                (i > n \/ \E j \in 1..(i - 1) : ~Spawned(runs[j].mv))
                  => runs[i] = OkRun}

\* The ways the preview commands (grim, convert, convert) end.
PreviewRuns ==
    { <<"ok", "ok", "ok">>, <<"fail", "ok", "ok">>, <<"ok", "fail", "ok">> }

\* The keys the description of the active window may lack.
LackCases == { {}, {"address"}, {"class"}, {"title"}, {"size"} }

\* The inputs of minimize_window; an input that the run does not read is
\* written as in DefaultRun.
DefaultRun(act, lack) ==
    [aw |-> "ok", act |-> act, lack |-> lack, ws |-> "ok", cur |-> 1,
     grim |-> "ok", thumb |-> "ok", icon |-> "ok", mv |-> "ok",
     q1 |-> "ok", q2 |-> "ok"]

MoveRuns(f, d) ==
    {[d EXCEPT !.mv = m] : m \in {"fail", "err"}}
      \cup {[d EXCEPT !.q1 = q.q1, !.q2 = q.q2] : q \in Loads(f)}

PreviewedRuns(f, d) ==
    IF "size" \in d.lack THEN MoveRuns(f, d)
    ELSE UNION {MoveRuns(f, [d EXCEPT !.grim = p[1], !.thumb = p[2],
                                      !.icon = p[3]]) : p \in PreviewRuns}

IdentifiedRuns(f, l, d) ==
    IF l[d.act] = Closed \/ d.lack \cap {"address", "class", "title"} /= {}
    THEN {d}
    ELSE PreviewedRuns(f, d)

WindowRuns(f, l, d) ==
    IF l[d.act] /= Closed /\ "class" \notin d.lack /\ ClassOf(d.act) = Wofi
    THEN {d}
    ELSE {[d EXCEPT !.ws = "err"]}
           \cup IdentifiedRuns(f, l, [d EXCEPT !.ws = "fail"])
           \cup UNION {IdentifiedRuns(f, l, [d EXCEPT !.cur = n]) :
                         n \in ActiveWorkspaces(l, d.act)}

MinimizeRuns(f, l) ==
    {[DefaultRun(Win1, {}) EXCEPT !.aw = o] : o \in {"fail", "err"}}
      \cup UNION {WindowRuns(f, l, DefaultRun(act, lack)) :
                    act \in Addresses, lack \in LackCases}

\* ------------------------------------------------------------- state
VARIABLES
    cache,   \* the cache file /tmp/minhypr-state/windows.json
    loc,     \* the window manager: the place of each window
    pc,      \* "idle": no minhypr process; "done": one has just ended
    call,    \* the process that has just ended: its command and argument
    log,     \* the external commands it ran, in order
    res,     \* its result: exit with Err, "not found" printed, count printed
    text,    \* StoreSpec: the content of the cache file, token by token
    arg,     \* StoreSpec: the vector given to save_windows_to_cache
    got,     \* StoreSpec: the vector read_windows_from_cache returned
    procs,   \* RaceSpec, CrashSpec: the running processes, step by step
    recon    \* CrashSpec: "killed" from a kill until the next reconciliation
             \* pass is completed, "reconciled" until that process exits

vars == <<cache, loc, pc, call, log, res, text, arg, got, procs, recon>>

\* What Spec, which runs each process in one step, leaves as it is.
store_vars == <<text, arg, got>>
step_vars == <<procs, recon>>

NoCall == [op |-> "none", id |-> <<>>, lack |-> {}]
NoRes == [err |-> FALSE, notfound |-> FALSE, count |-> 0]

\* The processes that may run at the same time, and no process.
Procs == {1, 2}
NoProc == [at |-> "none", op |-> "none", id |-> <<>>, windows |-> <<>>,
           window |-> <<>>]

\* No file text is kept; no process is run step by step; no process runs.
NoStore == /\ text = <<>> /\ arg = <<>> /\ got = <<>>
NoSteps == /\ procs = <<>> /\ recon = "clean"
NoProcs == /\ procs = [p \in Procs |-> NoProc] /\ recon = "clean"

Init ==
    /\ cache = NoFile
    /\ loc \in [Addresses -> RegularWs]
    /\ loc[Win3] = WsName(1)
    /\ pc = "idle"
    /\ call = NoCall
    /\ log = <<>>
    /\ res = NoRes
    /\ NoStore
    /\ NoSteps

\* A process ran op on id and returned r.
Ran(op, id, lack, r, count) ==
    /\ pc' = "done"
    /\ cache' = r.file
    /\ loc' = r.loc
    /\ log' = r.log
    /\ call' = [op |-> op, id |-> id, lack |-> lack]
    /\ res' = [err |-> r.err, notfound |-> r.notfound, count |-> count]
    /\ UNCHANGED <<store_vars, step_vars>>

\* `minhypr minimize`
Minimize ==
    /\ pc = "idle"
    /\ Len(cache.windows) < MaxStore
    /\ \E in \in MinimizeRuns(EnsureCache(cache), loc) :
         Ran("minimize", in.act, in.lack,
             minimize_window(EnsureCache(cache), loc, in), 0)

\* `minhypr restore <id>`
Restore ==
    /\ pc = "idle"
    /\ \E id \in Addresses, run \in RestoreRuns :
         /\ cache.windows = <<>> => run = OkRun
         /\ Ran("restore", id, {},
                restore_specific_window(id, EnsureCache(cache), loc, run.q1,
                                        run.q2, run.mv, run.fc), 0)

\* `minhypr restore-all`
RestoreAll ==
    /\ pc = "idle"
    /\ \E q \in Loads(cache) :
       \E runs \in RestoreAllRuns(EnsureCache(cache), loc, q) :
         Ran("restore-all", <<>>, {},
             restore_all_windows(EnsureCache(cache), loc, q.q1, q.q2, runs), 0)

\* `minhypr restore-last`
RestoreLast ==
    /\ pc = "idle"
    /\ \E q \in Loads(cache), run \in SingleFaultRuns :
         /\ cache.windows = <<>> => run = OkRun
         /\ Ran("restore-last", <<>>, {},
                restore_last(EnsureCache(cache), loc, q.q1, q.q2, run), 0)

\* `minhypr show`
Show ==
    /\ pc = "idle"
    /\ \E q \in Loads(cache) :
         LET r == show_status(EnsureCache(cache), loc, q.q1, q.q2)
         IN  Ran("show", <<>>, {}, r, Len(r.windows))

\* `minhypr show-rofi`
ShowRofi ==
    /\ pc = "idle"
    /\ \E q \in Loads(cache), ws \in Outcomes, cl \in Outcomes :
         /\ cache.windows = <<>> => ws = "ok" /\ cl = "ok"
         /\ ~Spawned(ws) => cl = "ok"
         /\ Ran("show-rofi", <<>>, {},
                show_rofi_menu(EnsureCache(cache), loc, q.q1, q.q2, ws, cl), 0)

\* The process is gone; what it left is the cache file and the windows.
Exit ==
    /\ pc = "done"
    /\ pc' = "idle"
    /\ call' = NoCall
    /\ log' = <<>>
    /\ res' = NoRes
    /\ UNCHANGED <<cache, loc, store_vars, step_vars>>

\* The windows other than the menu's.
UserWindows == Addresses \ {Win3}

\* The user moves a window to a regular workspace with the window manager's
\* own commands, also out of the hidden workspace.
UserMoves ==
    /\ pc = "idle"
    /\ \E a \in UserWindows, n \in WsIds :
         /\ loc[a] /= Closed
         /\ loc[a] /= WsName(n)
         /\ loc' = [loc EXCEPT ![a] = WsName(n)]
    /\ UNCHANGED <<cache, pc, call, log, res, store_vars, step_vars>>

\* The user closes a window (a closed window's address is not used again).
UserCloses ==
    /\ pc = "idle"
    /\ \E a \in UserWindows :
         /\ loc[a] /= Closed
         /\ loc' = [loc EXCEPT ![a] = Closed]
    /\ UNCHANGED <<cache, pc, call, log, res, store_vars, step_vars>>

Next ==
    \/ Minimize
    \/ Restore
    \/ RestoreAll
    \/ RestoreLast
    \/ Show
    \/ ShowRofi
    \/ Exit
    \/ UserMoves
    \/ UserCloses

Spec == Init /\ [][Next]_vars

\* ------------------------------------------------------------- the file as text
\* The cache file as read_windows_from_cache finds it, given whether it
\* exists and its content: fs::read_to_string, then serde_json::from_str.
FileOf(exists, content) ==
    [exists |-> exists,
     valid |-> ~exists \/ from_str(content).ok,
     windows |-> IF exists THEN from_str(content).windows ELSE <<>>]

\* Titles with a quote and with a backslash in them.
QuotedTitle == <<"say ", "\"", "hi", "\"">>
SlashedTitle == <<"C:", "\\", "tmp">>

\* Records minimize_window can have built.
StoreRecords ==
    { MinimizedWindow(Win1, ClassOf(Win1), TitleOf(Win1), None, 1),
      MinimizedWindow(Win1, ClassOf(Win1), QuotedTitle, ThumbPath(Win1), 2),
      MinimizedWindow(Win2, ClassOf(Win2), TitleOf(Win2), ThumbPath(Win2), 1),
      MinimizedWindow(Win2, ClassOf(Win2), SlashedTitle, None, 2) }

StoreArgs == UNION {[1..n -> StoreRecords] : n \in 0..MaxStore}

\* The window manager while the file is written and read: each of the two
\* windows is on workspace 1, hidden, or closed.
StoreLocs ==
    {l \in [Addresses -> {WsName(1), SpecialMinimized, Closed}] :
        l[Win3] = WsName(1)}

\* Where a write of content may have stopped when its process is killed.
CutPoints(content) ==
    {0, 1, Len(content) \div 2, Len(content) - 1}

StoreInit ==
    /\ cache = NoFile
    /\ text = <<>>
    /\ arg \in StoreArgs
    /\ got = <<>>
    /\ loc \in StoreLocs
    /\ pc = "idle"
    /\ call = NoCall
    /\ log = <<>>
    /\ res = NoRes
    /\ NoSteps

\* save_windows_to_cache(arg): the file holds the text of arg.
StoreSave ==
    /\ pc = "idle"
    /\ pc' = "saved"
    /\ text' = to_string(arg)
    /\ cache' = save_windows_to_cache(arg)
    /\ UNCHANGED <<loc, call, log, res, arg, got, step_vars>>

\* The process that writes the file is killed: a part of the text is there.
StoreCut ==
    /\ pc = "saved"
    /\ pc' = "cut"
    /\ \E n \in CutPoints(text) :
         /\ text' = SubSeq(text, 1, n)
         /\ cache' = FileOf(TRUE, text')
    /\ UNCHANGED <<loc, call, log, res, arg, got, step_vars>>

\* The file is removed.
StoreRemove ==
    /\ pc = "saved"
    /\ pc' = "removed"
    /\ text' = <<>>
    /\ cache' = FileOf(FALSE, text')
    /\ UNCHANGED <<loc, call, log, res, arg, got, step_vars>>

\* read_windows_from_cache() on the file as it is.
StoreLoad ==
    /\ pc \in {"idle", "saved", "cut", "removed"}
    /\ pc' = CASE pc = "saved" -> "loaded"
               [] pc = "cut" -> "loaded cut"
               [] OTHER -> "loaded absent"
    /\ \E q \in Loads(FileOf(cache.exists, text)) :
         LET f == FileOf(cache.exists, text)
             r == read_windows_from_cache(f, loc, q.q1, q.q2)
         IN  /\ got' = r.windows
             /\ log' = r.log
             /\ res' = [err |-> r.err, notfound |-> FALSE,
                        count |-> Len(r.windows)]
             /\ cache' = r.file
             /\ text' = IF r.file = f THEN text ELSE to_string(r.file.windows)
    /\ UNCHANGED <<loc, call, arg, step_vars>>

StoreNext ==
    \/ StoreSave
    \/ StoreCut
    \/ StoreRemove
    \/ StoreLoad

StoreSpec == StoreInit /\ [][StoreNext]_vars

\* ------------------------------------------------------------- step by step
\* The same processes with one step per access to the cache file, so that
\* two processes can interleave (RaceSpec) and a process can be killed between
\* two steps or in a write (CrashSpec).  A step is: the commands of a process
\* up to and including its move of a window; the read of the file with the
\* two queries of the reconciliation pass; one write of the file.  Every
\* command ends "ok" here: Spec has the commands that fail.

\* A write that keeps what the file held and adds the new content after it.
WriteFileAppending(f, windows) ==
    save_windows_to_cache(f.windows \o windows)

\* fs::write: the file holds the new content, whatever it held.
WriteFile(f, windows) == save_windows_to_cache(windows)

Proc(at, op, id, windows, window) ==
    [at |-> at, op |-> op, id |-> id, windows |-> windows, window |-> window]

\* The vector the next step of a process writes, for a process whose next
\* step is a write: the pass writes the records it kept, minimize those with
\* its record pushed, restore those of the other addresses.
Writes(pr) == pr.at = "evict" \/ pr.at = "restored"
                \/ (pr.at = "loaded" /\ pr.op = "minimize")

ToWrite(pr) ==
    CASE pr.at = "evict" -> pr.windows
      [] pr.at = "restored" ->
           SelectSeq(pr.windows, LAMBDA w : w.address /= pr.id)
      [] OTHER -> Push(pr.windows, pr.window)

StepInit ==
    /\ cache = NoFile
    /\ loc = [a \in Addresses |-> WsName(1)]
    /\ pc = "idle"
    /\ call = NoCall
    /\ log = <<>>
    /\ res = NoRes
    /\ NoStore
    /\ NoProcs

\* recon after a process has completed the reconciliation pass of its load.
Reconciled == IF recon = "killed" THEN "reconciled" ELSE recon

\* `minhypr minimize`, up to the move: main makes sure of the file; the
\* active window, on a regular workspace, is moved to the hidden workspace.
MinimizeMoves(p) ==
    /\ procs[p].at = "none"
    /\ Len(cache.windows) < MaxStore
    /\ \E act \in UserWindows :
         /\ loc[act] \in RegularWs
         /\ cache' = EnsureCache(cache)
         /\ loc' = Dispatch(loc, "ok", SpecialMinimized, act)
         /\ procs' = [procs EXCEPT ![p] =
                        Proc("moved", "minimize", act, <<>>,
                             MinimizedWindow(act, ClassOf(act), TitleOf(act),
                                             ThumbPath(act),
                                             ParseI32(loc[act])))]
    /\ UNCHANGED <<pc, call, log, res, store_vars, recon>>

\* `minhypr restore <id>` and `minhypr show` begin: main makes sure of the
\* file.
RestoreStarts(p) ==
    /\ procs[p].at = "none"
    /\ \E id \in UserWindows :
         procs' = [procs EXCEPT ![p] = Proc("start", "restore", id, <<>>, <<>>)]
    /\ cache' = EnsureCache(cache)
    /\ UNCHANGED <<loc, pc, call, log, res, store_vars, recon>>

ShowStarts(p) ==
    /\ procs[p].at = "none"
    /\ procs' = [procs EXCEPT ![p] = Proc("start", "show", <<>>, <<>>, <<>>)]
    /\ cache' = EnsureCache(cache)
    /\ UNCHANGED <<loc, pc, call, log, res, store_vars, recon>>

\* read_windows_from_cache() up to the write of its pass: the file is read
\* and parsed, the two queries are run, the records are filtered.  The pass
\* has a write to make when it dropped a record.
LoadsStore(p) ==
    /\ procs[p].at \in {"moved", "start"}
    /\ LET r == read_windows_from_cache(cache, loc, "ok", "ok")
           evicts == Len(r.windows) < Len(cache.windows) /\ cache.valid
       IN  /\ procs' = [procs EXCEPT
                          ![p].at = IF evicts THEN "evict" ELSE "loaded",
                          ![p].windows = r.windows]
           /\ recon' = IF evicts THEN recon ELSE Reconciled
    /\ UNCHANGED <<cache, loc, pc, call, log, res, store_vars>>

\* The write (and the signal) of the reconciliation pass.
Evicts(p) ==
    /\ procs[p].at = "evict"
    /\ cache' = WriteFile(cache, ToWrite(procs[p]))
    /\ procs' = [procs EXCEPT ![p].at = "loaded"]
    /\ recon' = Reconciled
    /\ UNCHANGED <<loc, pc, call, log, res, store_vars>>

\* minimize_window: the push, the write, the signal.
MinimizeSaves(p) ==
    /\ procs[p].at = "loaded" /\ procs[p].op = "minimize"
    /\ cache' = WriteFile(cache, ToWrite(procs[p]))
    /\ procs' = [procs EXCEPT ![p].at = "done"]
    /\ UNCHANGED <<loc, pc, call, log, res, store_vars, recon>>

\* restore_specific_window: the loop over the loaded vector, with the move
\* and the focus of each record of the address; not-found otherwise.
RestoreMoves(p) ==
    /\ procs[p].at = "loaded" /\ procs[p].op = "restore"
    /\ LET found == SelectSeq(procs[p].windows,
                              LAMBDA w : w.address = procs[p].id)
       IN  /\ loc' = MoveAll(loc, found, "ok")
           /\ procs' = [procs EXCEPT
                          ![p].at = IF found = <<>> THEN "done" ELSE "restored"]
    /\ UNCHANGED <<cache, pc, call, log, res, store_vars, recon>>

\* restore_specific_window: the write of the remaining records.
RestoreSaves(p) ==
    /\ procs[p].at = "restored"
    /\ cache' = WriteFile(cache, ToWrite(procs[p]))
    /\ procs' = [procs EXCEPT ![p].at = "done"]
    /\ UNCHANGED <<loc, pc, call, log, res, store_vars, recon>>

\* show_status prints the count.
ShowReports(p) ==
    /\ procs[p].at = "loaded" /\ procs[p].op = "show"
    /\ procs' = [procs EXCEPT ![p].at = "done"]
    /\ UNCHANGED <<cache, loc, pc, call, log, res, store_vars, recon>>

\* The process exits.
Ends(p) ==
    /\ procs[p].at = "done"
    /\ procs' = [procs EXCEPT ![p] = NoProc]
    /\ recon' = IF recon = "reconciled" THEN "clean" ELSE recon
    /\ UNCHANGED <<cache, loc, pc, call, log, res, store_vars>>

\* The process is killed between two steps.
Killed(p) ==
    /\ procs[p].at \notin {"none", "done"}
    /\ procs' = [procs EXCEPT ![p] = NoProc]
    /\ recon' = "killed"
    /\ UNCHANGED <<cache, loc, pc, call, log, res, store_vars>>

\* The process is killed in a write: the file holds a part of the new text.
KilledInWrite(p) ==
    /\ Writes(procs[p])
    /\ \E n \in CutPoints(to_string(ToWrite(procs[p]))) :
         cache' = FileOf(TRUE, SubSeq(to_string(ToWrite(procs[p])), 1, n))
    /\ procs' = [procs EXCEPT ![p] = NoProc]
    /\ recon' = "killed"
    /\ UNCHANGED <<loc, pc, call, log, res, store_vars>>

\* The steps of a `minhypr minimize`, of a `minhypr restore <id>` and of a
\* `minhypr show`.
MinimizeStep(p) ==
    \/ MinimizeMoves(p)
    \/ LoadsStore(p)
    \/ Evicts(p)
    \/ MinimizeSaves(p)
    \/ Ends(p)

RestoreStep(p) ==
    \/ RestoreStarts(p)
    \/ LoadsStore(p)
    \/ Evicts(p)
    \/ RestoreMoves(p)
    \/ RestoreSaves(p)
    \/ Ends(p)

ShowStep(p) ==
    \/ ShowStarts(p)
    \/ LoadsStore(p)
    \/ ShowReports(p)
    \/ Ends(p)

\* Two processes, interleaved: the first runs minimize, again and again, the
\* second restore.
RaceNext == MinimizeStep(1) \/ RestoreStep(2)

RaceSpec == StepInit /\ [][RaceNext]_vars

\* One process at a time, which may be killed.
CrashNext ==
    \/ MinimizeStep(1)
    \/ RestoreStep(1)
    \/ ShowStep(1)
    \/ Killed(1)
    \/ KilledInWrite(1)

CrashSpec == StepInit /\ [][CrashNext]_vars

\* ------------------------------------------------------------- the icon resolver
\* The capital of a letter, for the class names a window can have.
UpperOf(c) ==
    IF \E u \in DOMAIN Lower : Lower[u] = c
    THEN CHOOSE u \in DOMAIN Lower : Lower[u] = c
    ELSE c

ToUppercase(name) == [i \in 1..Len(name) |-> UpperOf(name[i])]

\* The class names get_app_icon is called with: a key of the table as it is
\* written, in capitals, in lower case, with its first letter a capital or
\* without its last letter, or no key at all, alone or after a reverse-DNS
\* prefix, and alone or before another key or a suffix.
OrgMozilla == <<"o", "r", "g", ".", "m", "o", "z", "i", "l", "l", "a", ".">>
Xyz123 == <<"x", "y", "z", "1", "2", "3">>

ClassPrefixes == {<<>>, OrgMozilla, <<"X">>}

ClassKeys ==
    UNION {{ICONS[i][1],
            ToUppercase(ICONS[i][1]),
            ToLowercase(ICONS[i][1]),
            <<UpperOf(Head(ICONS[i][1]))>> \o Tail(ICONS[i][1]),
            SubSeq(ICONS[i][1], 1, Len(ICONS[i][1]) - 1)} :
             i \in 1..Len(ICONS)}
      \cup {<<>>, Xyz123}

ClassSuffixes == {<<>>, <<"-">> \o ICONS[3][1], <<"-", "b", "i", "n">>}

ClassNames ==
    {p \o k \o x : p \in ClassPrefixes, k \in ClassKeys, x \in ClassSuffixes}

\* A window of class arg is about to be given its icon.
IconInit ==
    /\ cache = NoFile
    /\ loc = [a \in Addresses |-> WsName(1)]
    /\ pc = "idle"
    /\ call = NoCall
    /\ log = <<>>
    /\ res = NoRes
    /\ text = <<>>
    /\ arg \in ClassNames
    /\ got = <<>>
    /\ NoSteps

\* get_app_icon(arg)
IconResolves ==
    /\ pc = "idle"
    /\ pc' = "resolved"
    /\ got' = get_app_icon(arg)
    /\ UNCHANGED <<cache, loc, call, log, res, text, arg, step_vars>>

IconNext == IconResolves

IconSpec == IconInit /\ [][IconNext]_vars

\* ------------------------------------------------------------- the info parser
\* The tokens of the texts given to parse_window_info: the punctuation the
\* parser looks at, whitespace and a letter.
InfoTokens == {"{", "}", ",", ":", "\"", " ", "a"}

\* Every text of at most MaxInfo tokens.
ShortInfos == UNION {[1..n -> InfoTokens] : n \in 0..MaxInfo}

\* Longer texts: one or two `key:value` pairs, the keys and values bare,
\* quoted or quoted within whitespace, inside no, one or two layers of
\* braces.
InfoWords ==
    { <<"a">>, <<"\"", "a", "\"">>, <<"\"", "b", "\"">>,
      <<" ", "\"", "a", "\"", " ">> }

InfoPairs ==
    {k \o c \o v : k \in InfoWords, c \in {<<":">>, <<" ", ":">>},
                    v \in InfoWords}

InfoBodies ==
    InfoPairs \cup {p \o <<",">> \o q : p \in InfoPairs, q \in InfoPairs}

LongInfos ==
    {l \o b \o r : l \in {<<>>, <<"{">>, <<"{", "{">>}, b \in InfoBodies,
                    r \in {<<>>, <<"}">>, <<"}", "}">>}}

\* `{"class":"kitty","title":"shell"}` and `class:kitty,title:shell`.
KittyJson ==
    <<"{", "\"", "class", "\"", ":", "\"", "kitty", "\"", ",",
      "\"", "title", "\"", ":", "\"", "shell", "\"", "}">>
KittyPlain == <<"class", ":", "kitty", ",", "title", ":", "shell">>

InfoTexts == ShortInfos \cup LongInfos \cup {KittyJson, KittyPlain}

\* hyprctl has printed arg.
ParseInit ==
    /\ cache = NoFile
    /\ loc = [a \in Addresses |-> WsName(1)]
    /\ pc = "idle"
    /\ call = NoCall
    /\ log = <<>>
    /\ res = NoRes
    /\ text = <<>>
    /\ arg \in InfoTexts
    /\ got = <<>>
    /\ NoSteps

\* parse_window_info(arg)
ParseInfo ==
    /\ pc = "idle"
    /\ pc' = "parsed"
    /\ got' = parse_window_info(arg)
    /\ UNCHANGED <<cache, loc, call, log, res, text, arg, step_vars>>

ParseNext == ParseInfo

ParseSpec == ParseInit /\ [][ParseNext]_vars

\* ------------------------------------------------------------- properties
\* A step in which a minhypr process runs from start to end.
Invocation(op) == pc = "idle" /\ pc' = "done" /\ call'.op = op

\* The store has a record for address a.
HasRecord(windows, a) == \E i \in 1..Len(windows) : windows[i].address = a

\* The live snapshots of the window manager: the open windows, and the
\* windows assigned to the hidden workspace.
OpenWindows(l) == {a \in Addresses : l[a] /= Closed}
HiddenWindows(l) == {a \in Addresses : l[a] = SpecialMinimized}

\* sub is seq with some of its elements left out.
RECURSIVE IsSubsequence(_, _)
IsSubsequence(sub, seq) ==
    \/ sub = <<>>
    \/ /\ seq /= <<>>
       /\ \/ Head(sub) = Head(seq) /\ IsSubsequence(Tail(sub), Tail(seq))
          \/ IsSubsequence(sub, Tail(seq))

\* The positions of a log at which cmd was run, and those at which by ran it.
At(l, cmd) == {i \in 1..Len(l) : l[i].cmd = cmd}
AtBy(l, cmd, by) == {i \in At(l, cmd) : l[i].by = by}

\* Both queries of the (first) reconciliation pass of a log ran and exited
\* with 0; one of them did not.
PassQueriesOk(l) ==
    /\ Len(l) >= 2
    /\ l[1].cmd = "clients" /\ l[1].out = "ok"
    /\ l[2].cmd = "workspaces" /\ l[2].out = "ok"

PassQueryFailed(l) ==
    \/ Len(l) >= 1 /\ l[1].cmd = "clients" /\ l[1].out /= "ok"
    \/ Len(l) >= 2 /\ l[2].cmd = "workspaces" /\ l[2].out /= "ok"

\* C1: a reconciliation pass whose two queries gave their snapshots keeps a
\* record if and only if its address is in both snapshots, the open windows
\* and the windows of the hidden workspace.  (`minhypr show` is the load and
\* nothing else.)
C1_KeepsIffInBothSnapshots ==
    [][Invocation("show") /\ PassQueriesOk(log')
         => cache'.windows =
              SelectSeq(cache.windows,
                        LAMBDA w : /\ w.address \in OpenWindows(loc)
                                   /\ w.address \in HiddenWindows(loc))]_vars

\* C2: when a query of the reconciliation pass fails, the pass returns the
\* store as it was and the cache file holds the store as it was.
C2_FailSafeReconciliation ==
    [][Invocation("show") /\ PassQueryFailed(log')
         => /\ cache'.windows = cache.windows
            /\ ~res'.err
            /\ res'.count = Len(cache.windows)]_vars

\* C3: a reconciliation pass that dropped a record has written the filtered
\* store and then sent the signal, once, as its last two commands; a pass
\* that dropped none wrote nothing and sent no signal, and a store whose
\* addresses are all in both snapshots is left as it was.
C3_NotifiesOncePerChangingPass ==
    [][Invocation("show")
         => LET dropped == Len(cache'.windows) < Len(cache.windows)
                n == Len(log')
            IN  /\ dropped
                     => /\ At(log', "save") = {n - 1}
                        /\ At(log', "pkill") = {n}
                        /\ Len(cache'.windows) = res'.count
                /\ ~dropped
                     => /\ At(log', "save") = {}
                        /\ At(log', "pkill") = {}
                        /\ cache'.windows = cache.windows
                /\ (/\ PassQueriesOk(log')
                    /\ \A i \in 1..Len(cache.windows) :
                         /\ cache.windows[i].address \in OpenWindows(loc)
                         /\ cache.windows[i].address \in HiddenWindows(loc))
                     => ~dropped]_vars

\* C3, its case: a `show` whose pass dropped a record, wrote and signalled.
C3_Witness ==
    /\ pc = "done" /\ call.op = "show"
    /\ At(log, "save") /= {} /\ At(log, "pkill") /= {}
    /\ res.count >= 1

\* C4: no two records of the store share an address.
C4_UniqueAddresses ==
    \A i, j \in 1..Len(cache.windows) :
        i /= j => cache.windows[i].address /= cache.windows[j].address

\* C5: when minimize, restore, restore-all or restore-last has ended, the
\* store has a record for a window exactly when the window is in the hidden
\* workspace.
C5_StoreMatchesHiddenWorkspace ==
    (pc = "done"
       /\ call.op \in {"minimize", "restore", "restore-all", "restore-last"})
      => \A a \in Addresses :
           HasRecord(cache.windows, a) <=> a \in HiddenWindows(loc)

\* The move to the hidden workspace ran and exited with 0 in log l.
MovedToHidden(l) ==
    \E i \in At(l, "movetoworkspacesilent") : l[i].out = "ok"

\* The move to the hidden workspace was tried and did not succeed.
MoveToHiddenFailed(l) ==
    \E i \in At(l, "movetoworkspacesilent") : l[i].out /= "ok"

\* C6 as claimed: minimize appends, writes and signals only after the move
\* to the hidden workspace succeeded; when the move did not succeed the store
\* has no record for the active window and no signal was sent.
C6_FailedMoveLeavesNoRecord ==
    [][Invocation("minimize")
         => /\ \A i \in At(log', "save") \cup At(log', "pkill") :
                 \E j \in 1..(i - 1) :
                     /\ log'[j].cmd = "movetoworkspacesilent"
                     /\ log'[j].out = "ok"
            /\ MoveToHiddenFailed(log')
                 => /\ ~HasRecord(cache'.windows, call'.id)
                    /\ At(log', "pkill") = {}]_vars

\* C6, amended: minimize appends, writes and signals only after the move to
\* the hidden workspace succeeded; when the move did not succeed the store is
\* as it was (no record is added, a record the window had stays), nothing is
\* written and no signal is sent; when minimize ends without error after a
\* successful move, the record of the active window is the last of the store
\* and the write and the signal are its last two commands.
C6_AppendsOnlyAfterMove ==
    [][Invocation("minimize")
         => /\ \A i \in At(log', "save") \cup At(log', "pkill") :
                 \E j \in 1..(i - 1) :
                     /\ log'[j].cmd = "movetoworkspacesilent"
                     /\ log'[j].out = "ok"
            /\ ~MovedToHidden(log')
                 => /\ cache'.windows = cache.windows
                    /\ At(log', "save") = {}
                    /\ At(log', "pkill") = {}
            /\ (MovedToHidden(log') /\ ~res'.err)
                 => LET n == Len(cache'.windows)
                        m == Len(log')
                    IN  /\ n >= 1
                        /\ cache'.windows[n].address = call'.id
                        /\ log'[m - 1].cmd = "save"
                        /\ log'[m - 1].by = "minimize_window"
                        /\ log'[m].cmd = "pkill"
                        /\ log'[m].by = "minimize_window"]_vars

\* C6, its case: minimize of a window whose move to the hidden workspace
\* failed, the window having a record already.
C6_Witness ==
    /\ pc = "done" /\ call.op = "minimize"
    /\ \E i \in At(log, "movetoworkspacesilent") : log[i].out = "fail"
    /\ HasRecord(cache.windows, call.id)

\* The active window of the minimize that ended was described with its class
\* and the class is the menu launcher's.
ActiveIsWofi(l, c, lg) ==
    /\ Len(lg) >= 1 /\ lg[1].cmd = "activewindow" /\ lg[1].out = "ok"
    /\ l[c.id] /= Closed
    /\ "class" \notin c.lack
    /\ ClassOf(c.id) = <<"w", "o", "f", "i">>

\* C7: minimize while the active window's class is the menu launcher's is a
\* no-op: the store is as it was, no move command is issued and no window
\* changes place.
C7_DenylistIsNoOp ==
    [][(Invocation("minimize") /\ ActiveIsWofi(loc, call', log'))
         => /\ cache'.windows = cache.windows
            /\ loc' = loc
            /\ At(log', "movetoworkspacesilent") = {}
            /\ At(log', "movetoworkspace") = {}
            /\ ~res'.err]_vars

\* C7, its case: a minimize that found the menu launcher's window active.
C7_Witness ==
    /\ pc = "done" /\ call.op = "minimize"
    /\ ActiveIsWofi(loc, call, log)

\* The workspace id of a window on a regular workspace.
WorkspaceOf(l, a) == ParseI32(l[a])

\* C8 as claimed: minimize stores the workspace the window was on; restore of a stored
\* address issues a move whose target is the stored workspace, then removes
\* the record: the store is one record shorter and the other records are
\* kept.
C8_MinimizeThenRestore ==
    [][/\ (Invocation("minimize") /\ MovedToHidden(log') /\ ~res'.err
             /\ loc[call'.id] \in RegularWs)
          => cache'.windows[Len(cache'.windows)].workspace
               = WorkspaceOf(loc, call'.id)
       /\ (Invocation("restore") /\ HasRecord(cache.windows, call'.id))
          => /\ \E i \in At(log', "movetoworkspace") :
                  /\ log'[i].addr = call'.id
                  /\ \E k \in 1..Len(cache.windows) :
                       /\ cache.windows[k].address = call'.id
                       /\ cache.windows[k].workspace = log'[i].ws
                  /\ \E j \in At(log', "save") : i < j
             /\ ~HasRecord(cache'.windows, call'.id)
             /\ Len(cache'.windows) = Len(cache.windows) - 1
             /\ cache'.windows =
                  SelectSeq(cache.windows,
                            LAMBDA w : w.address /= call'.id)]_vars

\* The records of address a in a store.
RecordsOf(windows, a) == SelectSeq(windows, LAMBDA w : w.address = a)
OtherRecords(windows, a) == SelectSeq(windows, LAMBDA w : w.address /= a)

\* The reconciliation pass of the load dropped nothing.
NothingDropped(l) == AtBy(l, "save", "validate_cached_windows") = {}

\* C8, amended: minimize stores the id the active-workspace query reported,
\* which is the window's workspace when the window is on a regular one, and
\* 1 when that query fails.  Every move command of restore(address) names
\* that address and targets the workspace stored in a record of it.  When
\* restore ends without error for an address with a record, it issued its
\* moves before its write, no record of the address remains, and the records
\* that remain are records of other addresses in their old order: all of
\* them, with one move per record of the address, when the reconciliation
\* pass of the load dropped nothing.
C8_RestoreTargetsStoredWorkspace ==
    [][/\ (Invocation("minimize") /\ MovedToHidden(log') /\ ~res'.err)
          => LET stored == cache'.windows[Len(cache'.windows)].workspace
                 asked == log'[2].out = "ok"
             IN  /\ log'[2].cmd = "activeworkspace"
                 /\ ~asked => stored = 1
                 /\ asked => stored \in ActiveWorkspaces(loc, call'.id)
                 /\ (asked /\ loc[call'.id] \in RegularWs)
                      => stored = WorkspaceOf(loc, call'.id)
       /\ Invocation("restore")
          => /\ \A i \in At(log', "movetoworkspace") :
                  /\ log'[i].addr = call'.id
                  /\ \E k \in 1..Len(cache.windows) :
                       /\ cache.windows[k].address = call'.id
                       /\ cache.windows[k].workspace = log'[i].ws
             /\ (HasRecord(cache.windows, call'.id) /\ ~res'.err)
                  => /\ ~HasRecord(cache'.windows, call'.id)
                     /\ IsSubsequence(cache'.windows,
                                      OtherRecords(cache.windows, call'.id))
                     /\ \A i \in At(log', "movetoworkspace") :
                          \E j \in AtBy(log', "save",
                                        "restore_specific_window") : i < j
                     /\ NothingDropped(log')
                          => /\ cache'.windows
                                  = OtherRecords(cache.windows, call'.id)
                             /\ Cardinality(At(log', "movetoworkspace"))
                                  = Len(RecordsOf(cache.windows, call'.id))]_vars

\* C8, its case: a restore that moved a window back to its stored workspace,
\* which is not the default one, wrote the store and kept another record.
C8_Witness ==
    /\ pc = "done" /\ call.op = "restore" /\ ~res.err
    /\ \E i \in At(log, "movetoworkspace") :
         /\ log[i].out = "ok" /\ log[i].ws = 2
         /\ loc[call.id] = WsName(2)
    /\ AtBy(log, "save", "restore_specific_window") /= {}
    /\ Len(cache.windows) >= 1

\* C9: restore of an address that has a record removes the record from the
\* cache file, however the move and focus commands end.
C9_RestoreRemovesRecord ==
    [][(Invocation("restore") /\ HasRecord(cache.windows, call'.id))
         => ~HasRecord(cache'.windows, call'.id)]_vars

\* C10 as claimed: restore of an address that has no record reports
\* not-found and changes nothing: the cache file is as it was, no move or
\* focus command is issued, no signal is sent.
C10_UnknownAddressIsNoOp ==
    [][(Invocation("restore") /\ ~HasRecord(cache.windows, call'.id))
         => /\ res'.notfound
            /\ cache'.windows = cache.windows
            /\ At(log', "movetoworkspace") = {}
            /\ At(log', "focuswindow") = {}
            /\ At(log', "pkill") = {}]_vars

\* C10, amended: restore of an address that has no record issues no move or
\* focus command and moves no window; it reports not-found unless its load
\* ends with an error; restore itself writes nothing and sends no signal: the
\* cache file changes only when the reconciliation pass of the load drops
\* records, which then writes the remaining records, in order, and signals.
C10_UnknownAddressOnlyReconciles ==
    [][(Invocation("restore") /\ ~HasRecord(cache.windows, call'.id))
         => /\ At(log', "movetoworkspace") = {}
            /\ At(log', "focuswindow") = {}
            /\ loc' = loc
            /\ ~res'.err => res'.notfound
            /\ At(log', "save") = AtBy(log', "save", "validate_cached_windows")
            /\ At(log', "pkill")
                 = AtBy(log', "pkill", "validate_cached_windows")
            /\ At(log', "save") = {} => cache'.windows = cache.windows
            /\ IsSubsequence(cache'.windows, cache.windows)]_vars

\* C10, its case: a restore that reported not-found for an address without a
\* record, while the reconciliation pass of its load dropped a record, wrote
\* and signalled.
C10_Witness ==
    /\ pc = "done" /\ call.op = "restore"
    /\ res.notfound
    /\ ~HasRecord(cache.windows, call.id)
    /\ AtBy(log, "save", "validate_cached_windows") /= {}
    /\ AtBy(log, "pkill", "validate_cached_windows") /= {}

\* The store agrees with the window manager: its addresses are distinct and
\* each is the address of a window in the hidden workspace.
Consistent(windows, l) ==
    /\ \A i, j \in 1..Len(windows) :
         i /= j => windows[i].address /= windows[j].address
    /\ \A i \in 1..Len(windows) : windows[i].address \in HiddenWindows(l)

\* The addresses of a store, and the addresses the move commands of restore
\* name in a log, in order.
AddressesOf(windows) == [i \in 1..Len(windows) |-> windows[i].address]
MovesOf(l) ==
    LET moves == SelectSeq(l, LAMBDA e : e.cmd = "movetoworkspace")
    IN  [i \in 1..Len(moves) |-> moves[i].addr]

\* C11: restore-all on a store of n records that agrees with the window
\* manager ends with an empty store and has issued exactly one move command
\* per record, in store order, loading the store (with its two queries) once
\* before the loop and once in each iteration.
C11_RestoreAllEmptiesInOrder ==
    [][(Invocation("restore-all") /\ Consistent(cache.windows, loc))
         => LET n == Len(cache.windows)
            IN  /\ cache'.windows = <<>>
                /\ MovesOf(log') = AddressesOf(cache.windows)
                /\ Cardinality(AtBy(log', "clients", "validate_cached_windows"))
                     = IF n = 0 THEN 0 ELSE n + 1]_vars

\* C12 as claimed: status writes nothing, asks the window manager nothing,
\* sends no signal, and reports the number of records of the store.
C12_StatusIsReadOnly ==
    [][Invocation("show")
         => /\ cache'.windows = cache.windows
            /\ At(log', "clients") = {}
            /\ At(log', "workspaces") = {}
            /\ At(log', "save") = {}
            /\ At(log', "pkill") = {}
            /\ res'.count = Len(cache.windows)]_vars

\* C12, amended: status moves and focuses no window and runs no command
\* of its own: every command of its log is one of the reconciliation pass of
\* its load, which runs the two queries when the store is not empty and
\* writes and signals when it drops a record.  The store after status is the
\* store before it with the dropped records left out; on an empty store
\* status runs no command at all.  When status ends without error the count
\* it reports is the number of records of the store it leaves.
C12_StatusOnlyReconciles ==
    [][Invocation("show")
         => /\ loc' = loc
            /\ \A i \in 1..Len(log') : log'[i].by = "validate_cached_windows"
            /\ At(log', "movetoworkspace") = {}
            /\ At(log', "movetoworkspacesilent") = {}
            /\ At(log', "focuswindow") = {}
            /\ IsSubsequence(cache'.windows, cache.windows)
            /\ At(log', "save") = {} => cache'.windows = cache.windows
            /\ cache.windows = <<>> => log' = <<>>
            /\ (cache.windows /= <<>>) => At(log', "clients") = {1}
            /\ ~res'.err => res'.count = Len(cache'.windows)]_vars

\* C12, its case: a status whose load asked the window manager, dropped every
\* record, wrote the empty store, signalled, and reported the count 0.
C12_Witness ==
    /\ pc = "done" /\ call.op = "show" /\ ~res.err
    /\ At(log, "clients") /= {} /\ At(log, "workspaces") /= {}
    /\ AtBy(log, "save", "validate_cached_windows") /= {}
    /\ AtBy(log, "pkill", "validate_cached_windows") /= {}
    /\ res.count = 0 /\ cache.windows = <<>>

\* C13: when an invocation has ended, every write of the store it made was
\* followed by the refresh signal.
C13_EveryWriteIsSignalled ==
    pc = "done"
      => \A i \in At(log, "save") : \E j \in At(log, "pkill") : i < j

\* A command of the preview pipeline ran in log l and did not succeed.
PreviewStepFailed(l) ==
    \E i \in At(l, "grim") \cup At(l, "convert") : l[i].out /= "ok"

\* C16: when a step of the preview pipeline fails, minimize still issues the
\* move to the hidden workspace and does not end with an error because of it,
\* and the record it stores has no preview_path.
C16_FailedPreviewLeavesNoPath ==
    [][(Invocation("minimize") /\ PreviewStepFailed(log'))
         => /\ At(log', "movetoworkspacesilent") /= {}
            /\ (MovedToHidden(log') /\ ~res'.err)
                 => /\ cache'.windows /= <<>>
                    /\ cache'.windows[Len(cache'.windows)].preview_path
                         = None]_vars

\* C17: the store only changes by losing records or by gaining one at its
\* end.  A minimize either leaves the store as it was or leaves records of
\* the store it found, unaltered and in their order, followed by the new
\* record of the active window; every other invocation leaves records of the
\* store it found, unaltered and in their order; nothing else changes the
\* store.
C17_StoreKeepsMinimizeOrder ==
    [][/\ Invocation("minimize")
          => \/ cache'.windows = cache.windows
             \/ LET n == Len(cache'.windows)
                IN  /\ n >= 1
                    /\ IsSubsequence(SubSeq(cache'.windows, 1, n - 1),
                                     cache.windows)
                    /\ cache'.windows[n].address = call'.id
                    /\ MovedToHidden(log')
       /\ (pc = "idle" /\ pc' = "done" /\ call'.op /= "minimize")
          => IsSubsequence(cache'.windows, cache.windows)
       /\ ~(pc = "idle" /\ pc' = "done")
          => cache'.windows = cache.windows]_vars

\* C17, its case: a minimize that found a record of another window in the
\* store and put the record of the active window after it.
C17_Witness ==
    /\ pc = "done" /\ call.op = "minimize" /\ ~res.err
    /\ Len(cache.windows) = 2
    /\ cache.windows[1].address /= call.id
    /\ cache.windows[2].address = call.id
    /\ log[Len(log)].cmd = "pkill"

\* C20: no invocation ends with an error (no file system operation fails
\* here, so an error can only come from a window-manager command).
C20_OnlyFilesystemFailureIsFatal ==
    pc = "done" => ~res.err

\* C14: a load has not returned an error, and it has returned the empty
\* store when the file was absent or did not parse.
C14_LoadNeverErrs ==
    pc \in {"loaded", "loaded cut", "loaded absent"}
      => /\ ~res.err
         /\ pc \in {"loaded cut", "loaded absent"} => got = <<>>

\* C15 as claimed: the load that follows save(S) returns S.
C15_RoundTrip ==
    pc = "loaded" => (~res.err /\ got = arg)

\* C15, amended: the text save(S) writes parses back to S, record by record
\* and field by field.  The load that follows returns, unless it ends with
\* an error, the records of S its reconciliation pass kept, in order: S
\* itself when the pass dropped nothing, as it does whenever its queries
\* succeed and every record of S is of a window in the hidden workspace; and
\* the file then holds what the load returned.
C15_RoundTripUpToReconciliation ==
    /\ pc = "saved"
         => /\ from_str(text) = [ok |-> TRUE, windows |-> arg]
            /\ cache = FileOf(TRUE, text)
    /\ (pc = "loaded" /\ ~res.err)
         => /\ IsSubsequence(got, arg)
            /\ At(log, "save") = {} => got = arg
            /\ (/\ PassQueriesOk(log)
                /\ \A i \in 1..Len(arg) : arg[i].address \in HiddenWindows(loc))
                 => got = arg
            /\ from_str(text) = [ok |-> TRUE, windows |-> got]
            /\ cache.windows = got

\* C15, its case: a load after the save of two records, one without a
\* preview and one with, one with quotes in its title, whose pass asked the
\* window manager, found both windows in the hidden workspace, and which
\* returned the two records as they were saved.
C15_Witness ==
    /\ pc = "loaded" /\ ~res.err
    /\ PassQueriesOk(log)
    /\ Len(arg) = 2 /\ got = arg
    /\ \A i \in 1..2 : arg[i].address \in HiddenWindows(loc)
    /\ \E i, j \in 1..2 :
         /\ arg[i].preview_path = None
         /\ arg[j].preview_path /= None
         /\ arg[j].original_title = QuotedTitle

\* Process p makes a write of the cache file in this step.
WriteBy(p) ==
    /\ Writes(procs[p])
    /\ procs'[p].at \in {"loaded", "done"}
    /\ procs'[p].at /= procs[p].at

\* C18: the last writer wins.  After a write of a process every record of
\* the file is a record of the vector that process loaded, or the record it
\* pushed: what another process wrote since that load is gone.  (The case
\* the claim names is C18_Witness.)
C18_LastWriterWins ==
    [][\A p \in Procs :
         WriteBy(p)
           => /\ \A i \in 1..Len(cache'.windows) :
                   \/ \E j \in 1..Len(procs[p].windows) :
                        cache'.windows[i] = procs[p].windows[j]
                   \/ /\ procs[p].op = "minimize"
                      /\ cache'.windows[i] = procs[p].window
              /\ procs[p].op = "restore" /\ procs[p].at = "restored"
                   => ~HasRecord(cache'.windows, procs[p].id)]_vars

\* C18, its case: a minimize and a restore of another window overlapped, both
\* have made their last write, and the window the minimize moved is in the
\* hidden workspace with no record: the restore wrote the vector it had
\* loaded before the minimize wrote.
C18_Witness ==
    /\ procs[1].op = "minimize" /\ procs[1].at = "done"
    /\ procs[2].op = "restore" /\ procs[2].at = "done"
    /\ procs[2].id /= procs[1].id
    /\ loc[procs[1].id] = SpecialMinimized
    /\ ~HasRecord(cache.windows, procs[1].id)

NoFault(l) == \A i \in 1..Len(l) : l[i].out = "ok"

\* C21: restore-last on a store that agrees with the window manager, with
\* every command ending "ok": when the store has a record, the one move
\* command names the window of the newest record (the last in store order),
\* and the store afterwards is the store without that record; when the store
\* is empty, no window is moved and the store stays empty.
C21_RestoreLastRestoresNewest ==
    [][(/\ Invocation("restore-last")
        /\ Consistent(cache.windows, loc)
        /\ NoFault(log')
        /\ ~res'.err)
         => LET n == Len(cache.windows)
            IN  IF n = 0
                THEN MovesOf(log') = <<>> /\ cache'.windows = <<>>
                ELSE /\ MovesOf(log') = <<cache.windows[n].address>>
                     /\ cache'.windows = SubSeq(cache.windows, 1, n - 1)]_vars

\* The active window of the minimize that has just run could not be
\* identified: `hyprctl activewindow -j` exited unsuccessfully, or what it
\* printed lacks the address, the class or the title (it lacks them all when
\* no window has the focus).
Unidentified(l, c, lg) ==
    \/ \E i \in At(lg, "activewindow") : lg[i].out = "fail"
    \/ /\ \A i \in At(lg, "activewindow") : lg[i].out = "ok"
       /\ \/ c.lack \cap {"address", "class", "title"} /= {}
          \/ l[c.id] = Closed

\* C24: a minimize whose active window cannot be identified moves no
\* window, captures no preview, leaves the store as it was, sends no signal
\* and ends without error.
C24_UnidentifiedIsNoOp ==
    [][(Invocation("minimize") /\ Unidentified(loc, call', log'))
         => /\ At(log', "movetoworkspacesilent") = {}
            /\ At(log', "grim") = {}
            /\ At(log', "save") = {}
            /\ cache'.windows = cache.windows
            /\ loc' = loc
            /\ At(log', "pkill") = {}
            /\ ~res'.err]_vars

\* The class name has the key at offset off, letter by letter, whatever the
\* case of the letters.
HasKeyAt(class_name, key, off) ==
    \A k \in 1..Len(key) : LowerOf(class_name[off + k]) = LowerOf(key[k])

HasKey(class_name, key) ==
    \E off \in 0..(Len(class_name) - Len(key)) : HasKeyAt(class_name, key, off)

\* The rows of the table whose key the class name has.
Rows(class_name) == {i \in 1..Len(ICONS) : HasKey(class_name, ICONS[i][1])}

\* C23: the icon of a class name is the glyph of the first row, in table
\* order, whose key the class name contains case-insensitively, and the
\* glyph of the last row ("default") when it contains no key; the empty
\* class name gets the default glyph, "org.mozilla.firefox" the glyph of
\* "firefox" and "xyz123" the default glyph.
C23_FirstMatchingRowOrDefault ==
    pc = "resolved"
      => /\ Rows(arg) = {} => got = ICONS[Len(ICONS)][2]
         /\ \A i \in Rows(arg) :
              (\A j \in Rows(arg) : i <= j) => got = ICONS[i][2]
         /\ arg = <<>> => got = "icon_default"
         /\ arg = OrgMozilla \o ICONS[1][1] => got = "icon_firefox"
         /\ arg = Xyz123 => got = "icon_default"

\* A class name in capitals that contains two keys, the later row's first,
\* has been given the glyph of the earlier row.
C23_Witness ==
    /\ pc = "resolved"
    /\ arg = ToUppercase(ICONS[9][1]) \o <<"-">> \o ICONS[3][1]
    /\ got = ICONS[3][2]

\* The positions a..b of t without the leading and the trailing ones that
\* hold a token of the set, as <<first, last>>; first = last + 1 when none
\* is left.
Inner(t, a, b, set) ==
    LET kept == {i \in a..b : t[i] \notin set}
    IN  IF kept = {} THEN <<a, a - 1>>
        ELSE <<CHOOSE i \in kept : \A j \in kept : i <= j,
               CHOOSE i \in kept : \A j \in kept : j <= i>>

\* The positions of t without one brace at the start and one at the end.
OneLayer(t) ==
    LET a == IF 1 <= Len(t) /\ t[1] \in Braces THEN 2 ELSE 1
    IN  <<a, IF a <= Len(t) /\ t[Len(t)] \in Braces THEN Len(t) - 1
             ELSE Len(t)>>

\* The positions of t without any brace at the start or at the end.
AllLayers(t) == Inner(t, 1, Len(t), Braces)

\* The segments of the positions r of t: the longest runs without a comma.
Segments(t, r) ==
    {g \in (r[1]..(r[2] + 1)) \X ((r[1] - 1)..r[2]) :
        /\ g[1] <= g[2] + 1
        /\ g[1] = r[1] \/ t[g[1] - 1] = ","
        /\ g[2] = r[2] \/ t[g[2] + 1] = ","
        /\ \A i \in g[1]..g[2] : t[i] /= ","}

\* The segments that have a colon, and the first colon of one.
PairSegments(t, r) ==
    {g \in Segments(t, r) : \E i \in g[1]..g[2] : t[i] = ":"}
Colon(t, g) ==
    CHOOSE i \in g[1]..g[2] :
        t[i] = ":" /\ \A j \in g[1]..(i - 1) : t[j] /= ":"

\* The tokens at a..b without the whitespace around them and then without
\* the quotes around what is left.
Clean(t, a, b) ==
    LET w == Inner(t, a, b, Whitespace)
        q == Inner(t, w[1], w[2], Quotes)
    IN  SubSeq(t, q[1], q[2])

KeyIn(t, g) == Clean(t, g[1], Colon(t, g) - 1)
ValueIn(t, g) == Clean(t, Colon(t, g) + 1, g[2])

\* map is the mapping of the segments of the positions r of t: it has the
\* key of every segment with a colon, and the value of the last segment
\* with that key.
MapOfSegments(t, r, map) ==
    /\ DOMAIN map = {KeyIn(t, g) : g \in PairSegments(t, r)}
    /\ \A g \in PairSegments(t, r) :
         (\A h \in PairSegments(t, r) :
            KeyIn(t, h) = KeyIn(t, g) => h[1] <= g[1])
           => map[KeyIn(t, g)] = ValueIn(t, g)

\* What parse_window_info returns for the two texts of the example.
KittyMap == (<<"class">> :> <<"kitty">>) @@ (<<"title">> :> <<"shell">>)

\* C22 as claimed: parse_window_info never fails and, when the strict parse
\* fails, returns the mapping of the text with one layer of enclosing braces
\* stripped, split on commas, each segment split on its first colon, quotes
\* and whitespace trimmed from key and value; the two texts of the example
\* give {class: kitty, title: shell}, and a text without a key/value segment
\* gives the empty mapping.
C22_FallbackStripsOneLayer ==
    pc = "parsed"
      => /\ ~got.err
         /\ ~from_str_map(arg).ok => MapOfSegments(arg, OneLayer(arg), got.map)
         /\ arg \in {KittyJson, KittyPlain} => got.map = KittyMap
         /\ (\A i \in 1..Len(arg) : arg[i] /= ":") => got.map = EmptyMap

\* C22, amended: parse_window_info never fails; when the strict parse
\* succeeds it returns the map of the object; when it fails it returns the
\* mapping of the text with every leading and trailing brace stripped, split
\* on commas, each segment split on its first colon, whitespace and then
\* every surrounding quote trimmed from key and value, a later segment
\* replacing an earlier one with the same key; the two texts of the example
\* give {class: kitty, title: shell}, and a text without a colon gives the
\* empty mapping.
C22_FallbackStripsEveryBrace ==
    pc = "parsed"
      => /\ ~got.err
         /\ from_str_map(arg).ok => got.map = from_str_map(arg).map
         /\ ~from_str_map(arg).ok
              => MapOfSegments(arg, AllLayers(arg), got.map)
         /\ arg \in {KittyJson, KittyPlain} => got.map = KittyMap
         /\ (\A i \in 1..Len(arg) : arg[i] /= ":") => got.map = EmptyMap

\* A text in two layers of braces that is no JSON object has been parsed by
\* the fallback to the mapping of its one pair.
C22_Witness ==
    /\ pc = "parsed"
    /\ arg = <<"{", "{", "a", ":", "\"", "a", "\"", "}", "}">>
    /\ ~from_str_map(arg).ok
    /\ got.map = (<<"a">> :> <<"a">>)

====
